---- MODULE Spec2Model ----
(***************************************************************************)
(* Model of the MySQL inventory plugin, plugins/inventory/inventory.py:    *)
(* InventoryModule.parse, _get_raw_hosts, _populate and _add_host.         *)
(*                                                                         *)
(* One load (one call of parse) is a run of the actions below from Parse   *)
(* to pc = "done" or pc = "error".  The cache store, the database table    *)
(* and (when the caller passes the same object again) the inventory live   *)
(* on between loads.                                                       *)
(*                                                                         *)
(* Spec          loads with every kind of query, cache setting and driver  *)
(*               failure, on a new or a kept inventory.                    *)
(* FairSpec      Spec, with a load that has begun running on.              *)
(* SpecPopulate  loads that reach _populate, with every choice of          *)
(*               constructed options and a row _add_host refuses.          *)
(* SpecVerify    calls of verify_file.                                     *)
(***************************************************************************)
EXTENDS Integers, Sequences, FiniteSets, TLC

\* Longest result set the database holds.
MaxRows == 2

----------------------------------------------------------------------------
(* Python values: a tag and, for strings and integers, the value.          *)

PyNone == [t |-> "none"]
PyStr(s) == [t |-> "str", v |-> s]
PyInt(n) == [t |-> "int", v |-> n]
PyDict(f) == [t |-> "dict", v |-> f]
PyList(s) == [t |-> "list", v |-> s]

\* A test for None alone.
Truthy_NotNone(x) == x.t /= "none"

\* bool(x) of a Python value: None, "" and 0 are falsy.
Truthy(x) ==
  CASE x.t = "none" -> FALSE
    [] x.t = "str" -> x.v /= ""
    [] x.t = "int" -> x.v /= 0
    [] x.t = "dict" -> DOMAIN x.v /= {}
    [] x.t = "list" -> x.v /= <<>>

----------------------------------------------------------------------------
(* Query text: a string is a sequence of one-character strings.            *)

Whitespace == {" ", "\t", "\n"}

\* str.upper() on the characters the queries below use.
UpperChar(c) ==
  CASE c = "s" -> "S" [] c = "e" -> "E" [] c = "l" -> "L"
    [] c = "c" -> "C" [] c = "t" -> "T" [] c = "d" -> "D"
    [] c = "r" -> "R" [] c = "o" -> "O" [] c = "p" -> "P"
    [] OTHER -> c

Upper(s) == [i \in 1..Len(s) |-> UpperChar(s[i])]

RECURSIVE LStrip(_)
LStrip(s) ==
  IF s /= <<>> /\ Head(s) \in Whitespace THEN LStrip(Tail(s)) ELSE s

RECURSIVE RStrip(_)
RStrip(s) ==
  IF s /= <<>> /\ s[Len(s)] \in Whitespace
  THEN RStrip(SubSeq(s, 1, Len(s) - 1))
  ELSE s

\* str.strip()
Strip(s) == RStrip(LStrip(s))

\* str.startswith(p)
StartsWith(s, p) == Len(s) >= Len(p) /\ SubSeq(s, 1, Len(p)) = p

SELECT == <<"S", "E", "L", "E", "C", "T">>

\* Line 159: not isinstance(query, str) or not query.strip()
EmptyQueryTest(query) == query.t /= "str" \/ Strip(query.v) = <<>>

\* A test for SELECT anywhere in the text ("SELECT" in ...).
NotSelectTest_Anywhere(query) ==
  LET s == Upper(Strip(query.v))
  IN  ~\E i \in 0..(Len(s) - 6) : SubSeq(s, i + 1, i + 6) = SELECT

\* Line 163: not query.strip().upper().startswith("SELECT")
NotSelectTest(query) == ~StartsWith(Upper(Strip(query.v)), SELECT)

\* The values db_query takes in this model.
Queries ==
  { PyStr(<<"S", "E", "L", "E", "C", "T", " ", "*">>),
    PyStr(<<" ", "\n", "s", "e", "L", "e", "c", "t", " ", "1", "\t">>),
    PyStr(<<"D", "R", "O", "P", " ", "x">>),
    PyStr(<<" ", "S", "E", "L", "E", "C">>),
    PyStr(<<"D", ";", "S", "E", "L", "E", "C", "T">>),
    PyStr(<<>>),
    PyStr(<<" ", "\t", "\n">>),
    PyNone }

----------------------------------------------------------------------------
(* Result rows.  A DictCursor row maps column names to values.             *)

RowH1Prod == PyDict([hostname |-> PyStr("h1"), env |-> PyStr("PROD")])
RowH1Dev == PyDict([hostname |-> PyStr("h1"), env |-> PyStr("DEV")])
RowH2 == PyDict([hostname |-> PyStr("h2")])
RowEmpty == PyDict([hostname |-> PyStr(""), env |-> PyStr("DEV")])
RowNoHost == PyDict([env |-> PyStr("DEV")])
RowZero == PyDict([hostname |-> PyInt(0)])

Rows == {RowH1Prod, RowH1Dev, RowH2, RowEmpty, RowNoHost, RowZero}

\* The result sets a query can return (cursor.fetchall()).
RowSeqs == UNION {[1..n -> Rows] : n \in 0..MaxRows}

\* A numeric hostname column: truthy, and no name inventory.add_host takes.
RowNum == PyDict([hostname |-> PyInt(7), env |-> PyStr("PROD")])

\* The rows of the loads that look at _populate alone.
RowsPopulate == Rows \cup {RowNum}

RowSeqsPopulate == UNION {[1..n -> RowsPopulate] : n \in 0..MaxRows}

\* dict.get(key): the value, or None when the key is absent.
DictGet(d, key) == IF key \in DOMAIN d.v THEN d.v[key] ELSE PyNone

----------------------------------------------------------------------------
(* Configuration: the options _read_config_data loads from the file.       *)

\* The constructed options of EXAMPLES, each present or left empty:
\* compose {tier: env}, groups {prod: "env == 'PROD'"},
\* keyed_groups [{key: env, prefix: env}].
ConstructedOptions == {<<FALSE, FALSE, FALSE>>, <<TRUE, TRUE, TRUE>>}

\* strict with the constructed options it applies to.
StrictOptions ==
  {sk \in BOOLEAN \X ConstructedOptions : sk[1] => sk[2][1]}

Configs ==
  { [db_query |-> q, cache |-> c, hostname_field |-> "hostname",
     strict |-> sk[1], compose |-> sk[2][1], groups |-> sk[2][2],
     keyed_groups |-> sk[2][3]] :
      q \in Queries, c \in BOOLEAN, sk \in StrictOptions }

\* Every choice of constructed options, with and without strict, for a
\* source that neither caches nor has a bad query.
ConfigsPopulate ==
  { [db_query |-> PyStr(<<"S", "E", "L", "E", "C", "T", " ", "*">>),
     cache |-> FALSE, hostname_field |-> "hostname",
     strict |-> s, compose |-> k[1], groups |-> k[2], keyed_groups |-> k[3]] :
      s \in BOOLEAN, k \in BOOLEAN \X BOOLEAN \X BOOLEAN }

----------------------------------------------------------------------------
(* verify_file. A path is the sequence of its characters.                   *)

\* str.endswith(suffix)
EndsWith(s, suffix) ==
  /\ Len(s) >= Len(suffix)
  /\ SubSeq(s, Len(s) - Len(suffix) + 1, Len(s)) = suffix

\* Line 120: the tuple given to path.endswith.
Suffixes ==
  { <<"m", "y", "s", "q", "l", ".", "y", "a", "m", "l">>,
    <<"m", "y", "s", "q", "l", ".", "y", "m", "l">> }

\* The suffix test is skipped: whatever the base class accepts is valid.
verify_file_AnyName(p, accepted) ==
  IF accepted THEN TRUE ELSE FALSE

\* Lines 117-123; accepted is the answer of super().verify_file(path).
verify_file(p, accepted) ==
  IF accepted
  THEN IF \E suffix \in Suffixes : EndsWith(p, suffix) THEN TRUE ELSE FALSE
  ELSE FALSE

\* The paths verify_file is tried on: a directory or name prefix, a stem and
\* an extension.
PathPrefixes == {<<>>, <<"a", ".">>, <<"i", "n", "v", "/">>, <<"m", "y">>}

PathStems ==
  { <<"m", "y", "s", "q", "l">>, <<"m", "y", "s", "q">>,
    <<"M", "y", "S", "Q", "L">>, <<"s", "q", "l">>, <<>> }

PathExtensions ==
  { <<".", "y", "a", "m", "l">>, <<".", "y", "m", "l">>,
    <<".", "y", "a", "m", "l", ".", "b", "a", "k">>, <<".", "y", "m", "l", " ">>,
    <<".", "Y", "M", "L">>, <<".", "j", "s", "o", "n">>,
    <<"y", "a", "m", "l">>, <<>> }

VerifyPaths ==
  {d \o n \o e : d \in PathPrefixes, n \in PathStems, e \in PathExtensions}

\* No verify_file call under way.
NoVerify == [path |-> <<>>, accepted |-> FALSE, valid |-> FALSE]

\* No source file read yet.
NoConfig ==
  [db_query |-> PyNone, cache |-> FALSE, hostname_field |-> "hostname",
   strict |-> FALSE, compose |-> FALSE, groups |-> FALSE, keyed_groups |-> FALSE]

Paths == {"a.mysql.yml"}

\* get_cache_key(path): the key is computed from the path of the source.
get_cache_key(p) == <<"mysql", p>>

CacheKeys == {get_cache_key(p) : p \in Paths}

\* What the driver raises (the text to_native(e) gives).
ConnectFailures == {"Access denied", "Can't connect"}
ExecuteFailures == {"SQL syntax error"}
FetchFailures == {"Lost connection"}

----------------------------------------------------------------------------
(* The inventory the caller owns: groups (each a list of host names) and   *)
(* the variables of every host.  A host exists when it has a variable map. *)

NoVars == [k \in {} |-> PyNone]

EmptyInventory ==
  [groups |-> [g \in {"all", "ungrouped"} |-> <<>>], vars |-> [h \in {} |-> NoVars]]

Hosts(inv) == DOMAIN inv.vars

InSeq(s, x) == \E i \in 1..Len(s) : s[i] = x

\* The host is appended to the group's list whether or not it is in it.
add_child_Append(inv, group, host) ==
  [inv EXCEPT !.groups[group] = Append(@, host)]

\* Group.add_host: a host already in the group is not added again.
add_child(inv, group, host) ==
  [inv EXCEPT !.groups[group] = IF InSeq(@, host) THEN @ ELSE Append(@, host)]

add_group(inv, group) ==
  IF group \in DOMAIN inv.groups
  THEN inv
  ELSE [inv EXCEPT !.groups = (group :> <<>>) @@ @]

\* inventory.add_host(hostname, group="all")
add_host(inv, host, group) ==
  add_child(IF host \in Hosts(inv)
            THEN inv
            ELSE [inv EXCEPT !.vars = (host :> NoVars) @@ @],
            group, host)

\* inventory.set_variable(hostname, var_name, var_value)
set_variable(inv, host, name, value) ==
  [inv EXCEPT !.vars[host] = (name :> value) @@ @]

\* A variable the host already has keeps its value.
SetRowVars_KeepPrior(inv, host, host_vars) ==
  [inv EXCEPT !.vars[host] =
     [k \in DOMAIN host_vars.v \cup DOMAIN @ |->
        IF k \in DOMAIN @ THEN @[k] ELSE host_vars.v[k]]]

\* Lines 219-221: one set_variable per item of host_vars.
SetRowVars(inv, host, host_vars) ==
  [inv EXCEPT !.vars[host] =
     [k \in DOMAIN host_vars.v \cup DOMAIN @ |->
        IF k \in DOMAIN host_vars.v THEN host_vars.v[k] ELSE @[k]]]

\* The expressions of the constructed options read the variable env of
\* host_vars; templating fails when the row has no such column.
ExprFails(host_vars) == "env" \notin DOMAIN host_vars.v

\* _set_composite_vars(compose, host_vars, hostname, strict)
SetCompositeVars(inv, compose, host_vars, host) ==
  IF compose /\ ~ExprFails(host_vars)
  THEN set_variable(inv, host, "tier", host_vars.v["env"])
  ELSE inv

\* _add_host_to_composed_groups(groups, host_vars, hostname, strict)
AddHostToComposedGroups(inv, groups, host_vars, host) ==
  IF groups /\ ~ExprFails(host_vars) /\ host_vars.v["env"] = PyStr("PROD")
  THEN add_child(add_group(inv, "prod"), "prod", host)
  ELSE inv

\* _add_host_to_keyed_groups(keyed_groups, host_vars, hostname, strict)
AddHostToKeyedGroups(inv, keyed_groups, host_vars, host) ==
  IF keyed_groups /\ ~ExprFails(host_vars)
  THEN LET g == "env_" \o host_vars.v["env"].v
       IN add_child(add_group(inv, g), g, host)
  ELSE inv

\* The composed variables are set before the row's fields.
AddHost_ComposeFirst(inv, config, hostname, host_vars, i) ==
  LET host == hostname.v
      bad(on) == on /\ config.strict /\ ExprFails(host_vars)
      i1 == add_host(inv, host, "all")
      i2 == SetCompositeVars(i1, config.compose, host_vars, host)
      i3 == SetRowVars(i2, host, host_vars)
      i4 == AddHostToComposedGroups(i3, config.groups, host_vars, host)
      i5 == AddHostToKeyedGroups(i4, config.keyed_groups, host_vars, host)
      e1 == <<<<"add_host", i>>>>
      e2 == e1 \o <<<<"compose", i>>>>
      e3 == e2 \o <<<<"set_variable", i>>>>
      e4 == e3 \o <<<<"groups", i>>>>
      e5 == e4 \o <<<<"keyed_groups", i>>>>
  IN  IF hostname.t /= "str"
      THEN [inv |-> inv, exc |-> "Invalid host name provided", events |-> e1]
      ELSE IF bad(config.compose)
      THEN [inv |-> i1, exc |-> "Could not set tier", events |-> e2]
      ELSE IF bad(config.groups)
      THEN [inv |-> i3, exc |-> "Could not add host to group prod", events |-> e4]
      ELSE IF bad(config.keyed_groups)
      THEN [inv |-> i4, exc |-> "Could not generate group", events |-> e5]
      ELSE [inv |-> i5, exc |-> "", events |-> e5]

\* strict reaches compose and groups only; keyed groups run with the
\* default, strict=False.
AddHost_KeyedNotStrict(inv, config, hostname, host_vars, i) ==
  LET host == hostname.v
      bad(on) == on /\ config.strict /\ ExprFails(host_vars)
      i1 == add_host(inv, host, "all")
      i2 == SetRowVars(i1, host, host_vars)
      i3 == SetCompositeVars(i2, config.compose, host_vars, host)
      i4 == AddHostToComposedGroups(i3, config.groups, host_vars, host)
      i5 == AddHostToKeyedGroups(i4, config.keyed_groups, host_vars, host)
      e1 == <<<<"add_host", i>>>>
      e2 == e1 \o <<<<"set_variable", i>>>>
      e3 == e2 \o <<<<"compose", i>>>>
      e4 == e3 \o <<<<"groups", i>>>>
      e5 == e4 \o <<<<"keyed_groups", i>>>>
  IN  IF hostname.t /= "str"
      THEN [inv |-> inv, exc |-> "Invalid host name provided", events |-> e1]
      ELSE IF bad(config.compose)
      THEN [inv |-> i2, exc |-> "Could not set tier", events |-> e3]
      ELSE IF bad(config.groups)
      THEN [inv |-> i3, exc |-> "Could not add host to group prod", events |-> e4]
      ELSE [inv |-> i5, exc |-> "", events |-> e5]

\* _add_host(hostname, host_vars) for row i: the inventory it leaves, the
\* exception it raises ("" when it returns) and the calls it made.
AddHost(inv, config, hostname, host_vars, i) ==
  LET host == hostname.v
      bad(on) == on /\ config.strict /\ ExprFails(host_vars)
      i1 == add_host(inv, host, "all")
      i2 == SetRowVars(i1, host, host_vars)
      i3 == SetCompositeVars(i2, config.compose, host_vars, host)
      i4 == AddHostToComposedGroups(i3, config.groups, host_vars, host)
      i5 == AddHostToKeyedGroups(i4, config.keyed_groups, host_vars, host)
      e1 == <<<<"add_host", i>>>>
      e2 == e1 \o <<<<"set_variable", i>>>>
      e3 == e2 \o <<<<"compose", i>>>>
      e4 == e3 \o <<<<"groups", i>>>>
      e5 == e4 \o <<<<"keyed_groups", i>>>>
  IN  IF hostname.t /= "str"
      THEN [inv |-> inv, exc |-> "Invalid host name provided", events |-> e1]
      ELSE IF bad(config.compose)
      THEN [inv |-> i2, exc |-> "Could not set tier", events |-> e3]
      ELSE IF bad(config.groups)
      THEN [inv |-> i3, exc |-> "Could not add host to group prod", events |-> e4]
      ELSE IF bad(config.keyed_groups)
      THEN [inv |-> i4, exc |-> "Could not generate group", events |-> e5]
      ELSE [inv |-> i5, exc |-> "", events |-> e5]

\* A loop body that raises on a row without hostname.
ProcessRow_Raise(inv, config, row, i) ==
  LET hostname == DictGet(row, config.hostname_field)
      r == AddHost(inv, config, hostname, row, i)
  IN  IF Truthy(hostname)
      THEN [inv |-> r.inv, exc |-> r.exc, events |-> r.events, warned |-> 0]
      ELSE [inv |-> inv, exc |-> "missing hostname", events |-> <<>>, warned |-> 0]

\* A failure of _add_host undoes what it had added for the row.
ProcessRow_Rollback(inv, config, row, i) ==
  LET hostname == DictGet(row, config.hostname_field)
      r == AddHost(inv, config, hostname, row, i)
  IN  IF Truthy(hostname)
      THEN [inv |-> IF r.exc = "" THEN r.inv ELSE inv,
            exc |-> r.exc, events |-> r.events, warned |-> 0]
      ELSE [inv |-> inv, exc |-> "", events |-> <<<<"warning", i>>>>, warned |-> 1]

\* Lines 203-208, the body of _populate's loop for row i: a row with a
\* hostname goes to _add_host, any other is skipped with a warning.
ProcessRow(inv, config, row, i) ==
  LET hostname == DictGet(row, config.hostname_field)
      r == AddHost(inv, config, hostname, row, i)
  IN  IF Truthy(hostname)
      THEN [inv |-> r.inv, exc |-> r.exc, events |-> r.events, warned |-> 0]
      ELSE [inv |-> inv, exc |-> "", events |-> <<<<"warning", i>>>>, warned |-> 1]

----------------------------------------------------------------------------
(* Errors: every one is an AnsibleError; the text tells them apart.        *)

NoError == [msg |-> "", detail |-> ""]
QueryEmptyError == [msg |-> "Query must be a non-empty string", detail |-> ""]
QueryNotSelectError ==
  [msg |-> "Database query must be a valid SELECT statement", detail |-> ""]
\* The driver's message is left out.
DatabaseQueryFailed_NoDetail(e) == [msg |-> "Database query failed: ", detail |-> ""]

DatabaseQueryFailed(e) == [msg |-> "Database query failed: ", detail |-> e]
FailureParsingRecord(e) == [msg |-> "Failure parsing record: ", detail |-> e]

\* The caller's flag is ignored.
UtilizeCache_OptionOnly(user_cache_setting, cache_arg) == user_cache_setting

\* Line 134: utilize_cache = user_cache_setting and cache
UtilizeCache(user_cache_setting, cache_arg) == user_cache_setting /\ cache_arg

\* if not raw_hosts
IsNone_Falsy(x) == ~Truthy(x)

\* Line 145: if raw_hosts is None
IsNone(x) == x.t = "none"

\* if utilize_cache and raw_hosts: an empty result is not stored.
StoreInCache_NonEmpty(store, utilize, key, rows) ==
  IF utilize /\ Truthy(rows) THEN (key :> rows) @@ store ELSE store

\* Lines 148-149: if utilize_cache: self._cache[cache_key] = raw_hosts
StoreInCache(store, utilize, key, rows) ==
  IF utilize THEN (key :> rows) @@ store ELSE store

\* A finally that closes nothing.
CloseIfOpen_Never(conn) == conn

\* Lines 194-195: if connection: connection.close()
CloseIfOpen(conn) == IF conn = "open" THEN "closed" ELSE conn

----------------------------------------------------------------------------
(* State.                                                                  *)

VARIABLES
  pc,            \* where the running load stands; "idle", "done", "error" between loads
  path,          \* parse's path argument
  cache,         \* parse's cache argument
  cfg,           \* the options read from the source file
  cache_key,     \* parse's cache_key
  utilize_cache, \* parse's utilize_cache
  raw_hosts,     \* parse's raw_hosts: None or a list of rows
  connection,    \* _get_raw_hosts's connection: "None", "open" or "closed"
  pending,       \* what _get_raw_hosts is about to return or raise, in its finally
  err,           \* the error the load ended with
  idx,           \* _populate's position in raw_hosts
  cacheStore,    \* self._cache: cache key -> list of rows
  db,            \* the rows the query selects
  inventory,     \* the inventory parse is given
  warnings,      \* display.warning calls of this load
  log,           \* the calls this load has made, in order
  connects,      \* pymysql.connect calls of this load
  executed,      \* cursor.execute calls of this load
  open_conns,    \* connections open at the server
  failure,       \* what the driver raised in this load
  cache0,        \* cacheStore when the load began
  inventory0,    \* inventory when the load began
  verify         \* the verify_file call under way: its path, what
                 \* super().verify_file answered, and its return value

locals ==
  <<path, cache, cfg, cache_key, utilize_cache, raw_hosts, connection, pending,
    err, idx>>
history == <<warnings, log, connects, executed, failure, cache0, inventory0>>
vars == <<pc, locals, cacheStore, db, inventory, open_conns, history, verify>>

Event(name) == <<name, 0>>

Init ==
  /\ pc = "idle"
  /\ path = ""
  /\ cache = FALSE
  /\ cfg = NoConfig
  /\ cache_key = <<>>
  /\ utilize_cache = FALSE
  /\ raw_hosts = PyNone
  /\ connection = "None"
  /\ pending = PyNone
  /\ err = NoError
  /\ idx = 0
  /\ cacheStore = [k \in {} |-> PyNone]
  /\ db \in RowSeqs
  /\ inventory = EmptyInventory
  /\ warnings = 0
  /\ log = <<>>
  /\ connects = 0
  /\ executed = 0
  /\ open_conns = 0
  /\ failure = ""
  /\ cache0 = cacheStore
  /\ inventory0 = inventory
  /\ verify = NoVerify

----------------------------------------------------------------------------
(* parse                                                                   *)

\* Lines 125-129: a load begins, on the inventory of the last load or on a
\* new one, and reads its configuration.
Parse(p, c, config, fresh) ==
  /\ pc = "idle"
  /\ path' = p
  /\ cache' = c
  /\ cfg' = config
  /\ inventory' = IF fresh THEN EmptyInventory ELSE inventory
  /\ inventory0' = inventory'
  /\ cache0' = cacheStore
  /\ cache_key' = <<>>
  /\ utilize_cache' = FALSE
  /\ raw_hosts' = PyNone
  /\ connection' = "None"
  /\ pending' = PyNone
  /\ err' = NoError
  /\ idx' = 0
  /\ warnings' = 0
  /\ connects' = 0
  /\ executed' = 0
  /\ failure' = ""
  /\ log' = <<Event("read_config")>>
  /\ pc' = "cache_key"
  /\ UNCHANGED verify
  /\ UNCHANGED <<cacheStore, db, open_conns>>

\* Line 131
GetCacheKey ==
  /\ pc = "cache_key"
  /\ cache_key' = get_cache_key(path)
  /\ log' = Append(log, Event("cache_key"))
  /\ pc' = "decide"
  /\ UNCHANGED verify
  /\ UNCHANGED <<path, cache, cfg, utilize_cache, raw_hosts, connection, pending,
                 err, idx, cacheStore, db, inventory, open_conns, warnings,
                 connects, executed, failure, cache0, inventory0>>

\* Lines 133-137
DecideCache ==
  /\ pc = "decide"
  /\ utilize_cache' = UtilizeCache(cfg.cache, cache)
  /\ raw_hosts' = PyNone
  /\ log' = Append(log, Event("decide"))
  /\ pc' = "lookup"
  /\ UNCHANGED verify
  /\ UNCHANGED <<path, cache, cfg, cache_key, connection, pending, err, idx,
                 cacheStore, db, inventory, open_conns, warnings, connects,
                 executed, failure, cache0, inventory0>>

\* The query runs whatever the lookup gave.
AfterLookup_AlwaysQuery(rh) == "validate"

\* Line 145 onwards: query when raw_hosts is None, else populate.
AfterLookup(rh) == IF IsNone(rh) THEN "validate" ELSE "populate"

\* Lines 138-141: the cache holds the key.
CacheHit ==
  /\ pc = "lookup"
  /\ utilize_cache
  /\ cache_key \in DOMAIN cacheStore
  /\ raw_hosts' = cacheStore[cache_key]
  /\ log' = log \o <<Event("cache_get"), Event("hit")>>
  /\ pc' = AfterLookup(raw_hosts')
  /\ UNCHANGED verify
  /\ UNCHANGED <<path, cache, cfg, cache_key, utilize_cache, connection, pending,
                 err, idx, cacheStore, db, inventory, open_conns, warnings,
                 connects, executed, failure, cache0, inventory0>>

\* Lines 138-143: KeyError, caught.
CacheMiss ==
  /\ pc = "lookup"
  /\ utilize_cache
  /\ cache_key \notin DOMAIN cacheStore
  /\ log' = log \o <<Event("cache_get"), Event("miss")>>
  /\ pc' = AfterLookup(raw_hosts)
  /\ UNCHANGED verify
  /\ UNCHANGED <<locals, cacheStore, db, inventory, open_conns, warnings,
                 connects, executed, failure, cache0, inventory0>>

\* Line 138: utilize_cache is false, the cache is not consulted.
CacheSkip ==
  /\ pc = "lookup"
  /\ ~utilize_cache
  /\ pc' = AfterLookup(raw_hosts)
  /\ UNCHANGED verify
  /\ UNCHANGED <<locals, cacheStore, db, inventory, open_conns, history>>

\* Lines 148-150, after _get_raw_hosts returned.
CacheStore ==
  /\ pc = "store"
  /\ cacheStore' = StoreInCache(cacheStore, utilize_cache, cache_key, raw_hosts)
  /\ log' = Append(log, Event("store"))
  /\ pc' = "populate"
  /\ UNCHANGED verify
  /\ UNCHANGED <<locals, db, inventory, open_conns, warnings, connects, executed,
                 failure, cache0, inventory0>>

----------------------------------------------------------------------------
(* _get_raw_hosts                                                          *)

Raise(e) == [t |-> "exc", v |-> e]

\* Lines 156-166: the query is checked before anything is connected.
ValidateQuery ==
  /\ pc = "validate"
  /\ connection' = "None"
  /\ log' = Append(log, Event("validate"))
  /\ IF EmptyQueryTest(cfg.db_query)
     THEN err' = QueryEmptyError /\ pc' = "error"
     ELSE IF NotSelectTest(cfg.db_query)
     THEN err' = QueryNotSelectError /\ pc' = "error"
     ELSE err' = err /\ pc' = "connect"
  /\ UNCHANGED verify
  /\ UNCHANGED <<path, cache, cfg, cache_key, utilize_cache, raw_hosts, pending,
                 idx, cacheStore, db, inventory, open_conns, warnings, connects,
                 executed, failure, cache0, inventory0>>

\* Lines 169-179: pymysql.connect returns a connection.
Connect ==
  /\ pc = "connect"
  /\ connection' = "open"
  /\ open_conns' = open_conns + 1
  /\ connects' = connects + 1
  /\ log' = log \o <<Event("connect"), Event("connected")>>
  /\ pc' = "execute"
  /\ UNCHANGED verify
  /\ UNCHANGED <<path, cache, cfg, cache_key, utilize_cache, raw_hosts, pending,
                 err, idx, cacheStore, db, inventory, warnings, executed, failure,
                 cache0, inventory0>>

\* Lines 169-176, 188-191: pymysql.connect (or int(db_port)) raises; the
\* except clause wraps it; connection is still None.
ConnectFail(e) ==
  /\ pc = "connect"
  /\ connects' = connects + 1
  /\ failure' = e
  /\ pending' = Raise(DatabaseQueryFailed(e))
  /\ log' = Append(log, Event("connect"))
  /\ pc' = "finally"
  /\ UNCHANGED verify
  /\ UNCHANGED <<path, cache, cfg, cache_key, utilize_cache, raw_hosts, connection,
                 err, idx, cacheStore, db, inventory, open_conns, warnings,
                 executed, cache0, inventory0>>

\* Lines 181-183: cursor.execute(query) succeeds.
Execute ==
  /\ pc = "execute"
  /\ executed' = executed + 1
  /\ log' = Append(log, Event("execute"))
  /\ pc' = "fetchall"
  /\ UNCHANGED verify
  /\ UNCHANGED <<locals, cacheStore, db, inventory, open_conns, warnings,
                 connects, failure, cache0, inventory0>>

\* Lines 181-183, 188-191: connection.cursor() or cursor.execute raises.
ExecuteFail(e) ==
  /\ pc = "execute"
  /\ executed' = executed + 1
  /\ failure' = e
  /\ pending' = Raise(DatabaseQueryFailed(e))
  /\ log' = Append(log, Event("execute"))
  /\ pc' = "finally"
  /\ UNCHANGED verify
  /\ UNCHANGED <<path, cache, cfg, cache_key, utilize_cache, raw_hosts, connection,
                 err, idx, cacheStore, db, inventory, open_conns, warnings,
                 connects, cache0, inventory0>>

\* Lines 184-186: fetchall returns every selected row; return raw_hosts.
Fetchall ==
  /\ pc = "fetchall"
  /\ pending' = PyList(db)
  /\ log' = Append(log, Event("fetchall"))
  /\ pc' = "finally"
  /\ UNCHANGED verify
  /\ UNCHANGED <<path, cache, cfg, cache_key, utilize_cache, raw_hosts, connection,
                 err, idx, cacheStore, db, inventory, open_conns, warnings,
                 connects, executed, failure, cache0, inventory0>>

\* Lines 184, 188-191: fetchall raises.
FetchallFail(e) ==
  /\ pc = "fetchall"
  /\ failure' = e
  /\ pending' = Raise(DatabaseQueryFailed(e))
  /\ log' = Append(log, Event("fetchall"))
  /\ pc' = "finally"
  /\ UNCHANGED verify
  /\ UNCHANGED <<path, cache, cfg, cache_key, utilize_cache, raw_hosts, connection,
                 err, idx, cacheStore, db, inventory, open_conns, warnings,
                 connects, executed, cache0, inventory0>>

\* The except clause returns no rows instead of raising.
Finally_Swallow ==
  /\ pc = "finally"
  /\ connection' = CloseIfOpen(connection)
  /\ open_conns' = IF connection' = connection THEN open_conns ELSE open_conns - 1
  /\ log' = IF connection' = connection THEN log ELSE Append(log, Event("close"))
  /\ err' = err
  /\ raw_hosts' = IF pending.t = "exc" THEN PyList(<<>>) ELSE pending
  /\ pc' = "store"
  /\ pending' = PyNone
  /\ UNCHANGED verify
  /\ UNCHANGED <<path, cache, cfg, cache_key, utilize_cache, idx, cacheStore, db,
                 inventory, warnings, connects, executed, failure, cache0,
                 inventory0>>

\* Lines 193-196, then the return or the raise reaches parse (line 147).
Finally ==
  /\ pc = "finally"
  /\ connection' = CloseIfOpen(connection)
  /\ open_conns' = IF connection' = connection THEN open_conns ELSE open_conns - 1
  /\ log' = IF connection' = connection THEN log ELSE Append(log, Event("close"))
  /\ IF pending.t = "exc"
     THEN err' = pending.v /\ raw_hosts' = raw_hosts /\ pc' = "error"
     ELSE err' = err /\ raw_hosts' = pending /\ pc' = "store"
  /\ pending' = PyNone
  /\ UNCHANGED verify
  /\ UNCHANGED <<path, cache, cfg, cache_key, utilize_cache, idx, cacheStore, db,
                 inventory, warnings, connects, executed, failure, cache0,
                 inventory0>>

----------------------------------------------------------------------------
(* _populate                                                               *)

\* Lines 152-153, 198-200
PopulateStart ==
  /\ pc = "populate"
  /\ idx' = 1
  /\ log' = Append(log, Event("populate"))
  /\ pc' = "row"
  /\ UNCHANGED verify
  /\ UNCHANGED <<path, cache, cfg, cache_key, utilize_cache, raw_hosts, connection,
                 pending, err, cacheStore, db, inventory, open_conns, warnings,
                 connects, executed, failure, cache0, inventory0>>

\* A row that fails takes the rows of the load out of the cache.
PopulateRow_Evict ==
  /\ pc = "row"
  /\ idx <= Len(raw_hosts.v)
  /\ LET r == ProcessRow(inventory, cfg, raw_hosts.v[idx], idx)
     IN /\ inventory' = r.inv
        /\ log' = log \o r.events
        /\ warnings' = warnings + r.warned
        /\ IF r.exc = ""
           THEN err' = err /\ idx' = idx + 1 /\ pc' = "row" /\ cacheStore' = cacheStore
           ELSE /\ err' = FailureParsingRecord(r.exc) /\ idx' = idx /\ pc' = "error"
                /\ cacheStore' = [k \in DOMAIN cacheStore \ {cache_key} |-> cacheStore[k]]
  /\ UNCHANGED verify
  /\ UNCHANGED <<path, cache, cfg, cache_key, utilize_cache, raw_hosts, connection,
                 pending, db, open_conns, connects, executed, failure,
                 cache0, inventory0>>

\* Lines 201-212: one turn of the loop, _add_host included.
PopulateRow ==
  /\ pc = "row"
  /\ idx <= Len(raw_hosts.v)
  /\ LET r == ProcessRow(inventory, cfg, raw_hosts.v[idx], idx)
     IN /\ inventory' = r.inv
        /\ log' = log \o r.events
        /\ warnings' = warnings + r.warned
        /\ IF r.exc = ""
           THEN err' = err /\ idx' = idx + 1 /\ pc' = "row"
           ELSE err' = FailureParsingRecord(r.exc) /\ idx' = idx /\ pc' = "error"
  /\ UNCHANGED verify
  /\ UNCHANGED <<path, cache, cfg, cache_key, utilize_cache, raw_hosts, connection,
                 pending, cacheStore, db, open_conns, connects, executed, failure,
                 cache0, inventory0>>

\* The loop waits for one row more than there are.
PopulateEnd_OffByOne ==
  /\ pc = "row"
  /\ idx > Len(raw_hosts.v) + 1
  /\ pc' = "done"
  /\ UNCHANGED verify
  /\ UNCHANGED <<locals, cacheStore, db, inventory, open_conns, history>>

\* Line 201: the loop is over, parse returns.
PopulateEnd ==
  /\ pc = "row"
  /\ idx > Len(raw_hosts.v)
  /\ pc' = "done"
  /\ UNCHANGED verify
  /\ UNCHANGED <<locals, cacheStore, db, inventory, open_conns, history>>

\* parse has returned or raised: its locals are gone; the cache store, the
\* database and the inventory stay.
Return ==
  /\ pc \in {"done", "error"}
  /\ pc' = "idle"
  /\ path' = ""
  /\ cache' = FALSE
  /\ cfg' = NoConfig
  /\ cache_key' = <<>>
  /\ utilize_cache' = FALSE
  /\ raw_hosts' = PyNone
  /\ connection' = "None"
  /\ pending' = PyNone
  /\ err' = NoError
  /\ idx' = 0
  /\ warnings' = 0
  /\ log' = <<>>
  /\ connects' = 0
  /\ executed' = 0
  /\ failure' = ""
  /\ cache0' = cacheStore
  /\ inventory0' = inventory
  /\ UNCHANGED verify
  /\ UNCHANGED <<cacheStore, db, inventory, open_conns>>

----------------------------------------------------------------------------

Next ==
  \/ \E p \in Paths, c \in BOOLEAN, config \in Configs, fresh \in BOOLEAN :
       Parse(p, c, config, fresh)
  \/ GetCacheKey
  \/ DecideCache
  \/ CacheHit
  \/ CacheMiss
  \/ CacheSkip
  \/ ValidateQuery
  \/ Connect
  \/ \E e \in ConnectFailures : ConnectFail(e)
  \/ Execute
  \/ \E e \in ExecuteFailures : ExecuteFail(e)
  \/ Fetchall
  \/ \E e \in FetchFailures : FetchallFail(e)
  \/ Finally
  \/ CacheStore
  \/ PopulateStart
  \/ PopulateRow
  \/ PopulateEnd
  \/ Return

Spec == Init /\ [][Next]_vars

\* The steps parse takes by itself once it is called: every statement is
\* reached when the one before it has returned or raised.
Step ==
  \/ GetCacheKey
  \/ DecideCache
  \/ CacheHit
  \/ CacheMiss
  \/ CacheSkip
  \/ CacheStore
  \/ ValidateQuery
  \/ Connect
  \/ \E e \in ConnectFailures : ConnectFail(e)
  \/ Execute
  \/ \E e \in ExecuteFailures : ExecuteFail(e)
  \/ Fetchall
  \/ \E e \in FetchFailures : FetchallFail(e)
  \/ Finally
  \/ PopulateStart
  \/ PopulateRow
  \/ PopulateEnd

\* A load that has begun keeps running; when the next load begins, and
\* whether one begins at all, is up to the caller.
FairSpec == Spec /\ WF_vars(Step)

----------------------------------------------------------------------------
(* Loads that study _populate: a database that answers, no cache, a new     *)
(* inventory for each load, every choice of constructed options, and rows   *)
(* that include one with a numeric hostname.                                *)

InitPopulate ==
  /\ pc = "idle"
  /\ path = ""
  /\ cache = FALSE
  /\ cfg = NoConfig
  /\ cache_key = <<>>
  /\ utilize_cache = FALSE
  /\ raw_hosts = PyNone
  /\ connection = "None"
  /\ pending = PyNone
  /\ err = NoError
  /\ idx = 0
  /\ cacheStore = [k \in {} |-> PyNone]
  /\ db \in RowSeqsPopulate
  /\ inventory = EmptyInventory
  /\ warnings = 0
  /\ log = <<>>
  /\ connects = 0
  /\ executed = 0
  /\ open_conns = 0
  /\ failure = ""
  /\ cache0 = cacheStore
  /\ inventory0 = inventory
  /\ verify = NoVerify

NextPopulate ==
  \/ \E p \in Paths, config \in ConfigsPopulate : Parse(p, FALSE, config, TRUE)
  \/ GetCacheKey
  \/ DecideCache
  \/ CacheSkip
  \/ ValidateQuery
  \/ Connect
  \/ Execute
  \/ Fetchall
  \/ Finally
  \/ CacheStore
  \/ PopulateStart
  \/ PopulateRow
  \/ PopulateEnd
  \/ Return

SpecPopulate == InitPopulate /\ [][NextPopulate]_vars

----------------------------------------------------------------------------
(* The plugin loader asking verify_file about a source.                     *)

\* Lines 117-123: one call of verify_file.
VerifyFile(p, accepted) ==
  /\ pc = "idle"
  /\ pc' = "verified"
  /\ verify' = [path |-> p, accepted |-> accepted, valid |-> verify_file(p, accepted)]
  /\ UNCHANGED <<locals, cacheStore, db, inventory, open_conns, history>>

\* Line 123: the caller has the answer.
VerifyReturn ==
  /\ pc = "verified"
  /\ pc' = "idle"
  /\ verify' = NoVerify
  /\ UNCHANGED <<locals, cacheStore, db, inventory, open_conns, history>>

InitVerify ==
  /\ pc = "idle"
  /\ path = ""
  /\ cache = FALSE
  /\ cfg = NoConfig
  /\ cache_key = <<>>
  /\ utilize_cache = FALSE
  /\ raw_hosts = PyNone
  /\ connection = "None"
  /\ pending = PyNone
  /\ err = NoError
  /\ idx = 0
  /\ cacheStore = [k \in {} |-> PyNone]
  /\ db = <<>>
  /\ inventory = EmptyInventory
  /\ warnings = 0
  /\ log = <<>>
  /\ connects = 0
  /\ executed = 0
  /\ open_conns = 0
  /\ failure = ""
  /\ cache0 = cacheStore
  /\ inventory0 = inventory
  /\ verify = NoVerify

NextVerify ==
  \/ \E p \in VerifyPaths, accepted \in BOOLEAN : VerifyFile(p, accepted)
  \/ VerifyReturn

SpecVerify == InitVerify /\ [][NextVerify]_vars

----------------------------------------------------------------------------
(* Vocabulary of the properties.                                           *)

\* The load made the call.
Called(name) == InSeq(log, Event(name))

\* How often the load made the call.
Count(name) == Cardinality({i \in 1..Len(log) : log[i] = Event(name)})

\* The error taxonomy: ConfigurationError, DatabaseError, PopulationError.
ErrorKind(e) ==
  CASE e.msg \in {"Query must be a non-empty string",
                  "Database query must be a valid SELECT statement"} ->
         "ConfigurationError"
    [] e.msg = "Database query failed: " -> "DatabaseError"
    [] e.msg = "Failure parsing record: " -> "PopulationError"
    [] OTHER -> "none"

\* The letters of SELECT in either case.
SelectLetters ==
  <<{"S", "s"}, {"E", "e"}, {"L", "l"}, {"E", "e"}, {"C", "c"}, {"T", "t"}>>

\* q is a string that reads SELECT, in any case, after k leading whitespace
\* characters.
BeginsWithSelect(q) ==
  /\ q.t = "str"
  /\ \E k \in 0..Len(q.v) :
       /\ \A i \in 1..k : q.v[i] \in Whitespace
       /\ Len(q.v) >= k + 6
       /\ \A j \in 1..6 : q.v[k + j] \in SelectLetters[j]

\* _get_raw_hosts has been entered and has checked the query.
FetchChecked == Called("validate")

\* parse has called _get_raw_hosts.
FetchEntered == pc = "validate" \/ FetchChecked

\* _get_raw_hosts is running with the query accepted.
InFetch == pc \in {"connect", "execute", "fetchall", "finally"}

\* A load is under way or has just ended.
InLoad == pc /= "idle"

\* C1: whenever _get_raw_hosts has checked a query that is not a string, is
\* blank or does not begin with SELECT (any case, leading whitespace
\* ignored), the load has ended in a ConfigurationError and pymysql.connect
\* was never called: no connection exists or is open.
C1_InvalidQueryRaisesBeforeConnect ==
  (FetchChecked /\ ~BeginsWithSelect(cfg.db_query)) =>
    /\ pc = "error"
    /\ ErrorKind(err) = "ConfigurationError"
    /\ connects = 0
    /\ ~Called("connect")
    /\ connection = "None"
    /\ open_conns = 0

\* A statement that mentions SELECT after another statement was rejected.
C1_Witness ==
  /\ pc = "error"
  /\ err = QueryNotSelectError
  /\ cfg.db_query = PyStr(<<"D", ";", "S", "E", "L", "E", "C", "T">>)
  /\ connects = 0

\* C2 as claimed: a fetch that accepted the query and has returned or raised
\* has opened exactly one connection.
C2_ExactlyOneConnectionOpened ==
  (FetchChecked /\ BeginsWithSelect(cfg.db_query) /\ ~InFetch) =>
    Count("connected") = 1

\* C2: a fetch that accepted the query calls connect exactly once and opens
\* at most one connection (none when connect itself raises); once it has
\* returned or raised, the connection is closed.  At all times at most one
\* connection is open, only inside a running fetch, and it is the one the
\* fetch holds.
C2_ConnectionClosedOnEveryExit ==
  /\ (FetchChecked /\ BeginsWithSelect(cfg.db_query) /\ ~InFetch) =>
       /\ connects = 1
       /\ Count("connected") = IF failure \in ConnectFailures THEN 0 ELSE 1
       /\ connection = IF failure \in ConnectFailures THEN "None" ELSE "closed"
       /\ Count("close") = Count("connected")
  /\ open_conns \in {0, 1}
  /\ open_conns = IF connection = "open" THEN 1 ELSE 0
  /\ open_conns = 1 => pc \in {"execute", "fetchall", "finally"}

\* A failed execute: the error has reached parse and the connection is closed.
C2_Witness ==
  /\ pc = "error"
  /\ failure \in ExecuteFailures
  /\ connection = "closed"
  /\ open_conns = 0
  /\ Count("connected") = 1

\* C3: a load whose query is not a SELECT statement changes nothing and ends
\* in a ConfigurationError: no connect call, the inventory and the cache
\* store as they were when the load began, and never "done".
C3_NonSelectLoadHasNoEffect ==
  (InLoad /\ ~BeginsWithSelect(cfg.db_query)) =>
    /\ connects = 0
    /\ inventory = inventory0
    /\ cacheStore = cache0
    /\ pc /= "done"
    /\ pc = "error" => ErrorKind(err) = "ConfigurationError"

\* The value of the hostname field of a row is missing, None, "" or 0.
MissingHostname(row) ==
  \/ cfg.hostname_field \notin DOMAIN row.v
  \/ row.v[cfg.hostname_field] \in {PyNone, PyStr(""), PyInt(0)}

\* The rows of raw_hosts at positions 1..n that carry a hostname.
NamedRows(n) == {j \in 1..n : ~MissingHostname(raw_hosts.v[j])}

\* The hostnames of those rows.
Names(n) == {raw_hosts.v[j].v[cfg.hostname_field].v : j \in NamedRows(n)}

\* _populate has run to its end.
Populated == pc = "done"

\* C4 as claimed: after populate the inventory (empty before) holds as many
\* hosts as there are rows with a non-empty hostname.
C4_HostCountEqualsNamedRowCount ==
  (Populated /\ inventory0 = EmptyInventory) =>
    Cardinality(Hosts(inventory)) = Cardinality(NamedRows(Len(raw_hosts.v)))

\* C4: no row without a hostname yields a host: while populate runs and when
\* it has ended, the hosts are those the inventory held before and the
\* hostnames of the rows handled so far; on an inventory that was empty the
\* number of hosts after populate is the number of distinct hostnames.
C4_HostsAreDistinctNamedRows ==
  /\ pc \in {"row", "done"} =>
       Hosts(inventory) = Hosts(inventory0) \cup Names(idx - 1)
  /\ (pc = "error" /\ ErrorKind(err) = "PopulationError") =>
       Hosts(inventory) \subseteq Hosts(inventory0) \cup Names(idx)
  /\ (Populated /\ inventory0 = EmptyInventory) =>
       Cardinality(Hosts(inventory)) = Cardinality(Names(Len(raw_hosts.v)))

\* Two rows name the same host: one host results.
C4_Witness ==
  /\ Populated
  /\ inventory0 = EmptyInventory
  /\ raw_hosts.v = <<RowH1Prod, RowH1Dev>>
  /\ Hosts(inventory) = {"h1"}

\* What _populate does with the row at idx when that row has no hostname:
\* one warning, nothing else, and the loop goes on to the next row.
SkipsRow ==
  /\ warnings' = warnings + 1
  /\ log' = Append(log, <<"warning", idx>>)
  /\ inventory' = inventory
  /\ err' = err
  /\ idx' = idx + 1
  /\ pc' = "row"

\* The rows at positions 1..n without a hostname.
UnnamedRows(n) == (1..n) \ NamedRows(n)

\* C5: a step of _populate on a row whose hostname is missing or falsy emits
\* one warning, leaves the inventory alone and moves to the next row without
\* error; so the warnings of a load number the unnamed rows handled so far,
\* every row before idx was handled, and a load never fails on a row without
\* hostname.
C5_MissingHostnameSkipsRow ==
  /\ [][(pc = "row" /\ idx <= Len(raw_hosts.v) /\ MissingHostname(raw_hosts.v[idx]))
          => SkipsRow]_vars
  /\ [](pc \in {"row", "done"} =>
          /\ warnings = Cardinality(UnnamedRows(idx - 1))
          /\ \A j \in UnnamedRows(idx - 1) : InSeq(log, <<"warning", j>>)
          /\ \A j \in NamedRows(idx - 1) : InSeq(log, <<"add_host", j>>))
  /\ []((pc = "error" /\ ErrorKind(err) = "PopulationError") =>
          ~MissingHostname(raw_hosts.v[idx]))

\* A row without hostname was skipped with a warning, the row after it became
\* a host and the load completed.
C5_Witness ==
  /\ Populated
  /\ raw_hosts.v = <<RowZero, RowH2>>
  /\ warnings = 1
  /\ "h2" \in Hosts(inventory)

\* The load has gone past the cache lookup of lines 138-143.
PastLookup == pc \notin {"idle", "cache_key", "decide", "lookup"}

\* The configuration's cache option and the caller's cache flag are both set.
BothCacheFlags == cfg.cache /\ cache

\* C6: in a load where the cache option or the caller's cache flag is false,
\* the cache store is neither read nor written, it stays as it was when the
\* load began, and a load that has gone past the lookup has entered
\* _get_raw_hosts.
C6_CacheUnusedUnlessBothFlags ==
  (InLoad /\ ~BothCacheFlags) =>
    /\ ~Called("cache_get")
    /\ cacheStore = cache0
    /\ PastLookup => FetchEntered
    /\ pc \in {"populate", "row", "done"} => raw_hosts = PyList(db)

\* The caller suppressed the cache: the entry under the key was left alone
\* and the rows came from the database.
C6_Witness ==
  /\ Populated
  /\ cfg.cache
  /\ ~cache
  /\ cache_key \in DOMAIN cacheStore
  /\ executed = 1

\* The load found its key in the cache store.
IsHit == BothCacheFlags /\ PastLookup /\ cache_key \in DOMAIN cache0

\* The load looked its key up and the cache store did not hold it.
IsMiss == BothCacheFlags /\ PastLookup /\ cache_key \notin DOMAIN cache0

\* The load got its rows and went on to populate, or beyond.
HasRows ==
  \/ pc \in {"populate", "row", "done"}
  \/ pc = "error" /\ ErrorKind(err) = "PopulationError"

\* C7: with both cache flags set, a load that misses enters _get_raw_hosts
\* (the miss is no error) and, once it has its rows, the store holds exactly
\* the fetched rows under the key; a load that finds the key populates from
\* exactly the stored rows, empty or not, and neither checks the query nor
\* connects nor executes.
C7_CacheHitReturnsStoredRows ==
  /\ IsMiss =>
       /\ FetchEntered
       /\ HasRows =>
            /\ cache_key \in DOMAIN cacheStore
            /\ cacheStore[cache_key] = PyList(db)
            /\ raw_hosts = cacheStore[cache_key]
  /\ IsHit =>
       /\ raw_hosts = cache0[cache_key]
       /\ cacheStore = cache0
       /\ ~FetchEntered
       /\ connects = 0
       /\ executed = 0
       /\ HasRows
  /\ \A k \in DOMAIN cacheStore : cacheStore[k] = PyList(db)

\* A second load populated from a cached empty row set without a query.
C7_Witness ==
  /\ Populated
  /\ IsHit
  /\ raw_hosts = PyList(<<>>)
  /\ executed = 0

\* The position of a call in the log, 0 when it was not made.
Pos(name) ==
  IF Called(name) THEN CHOOSE i \in 1..Len(log) : log[i] = Event(name) ELSE 0

\* C8: on a miss with utilize_cache true the store is untouched until
\* _get_raw_hosts has returned its rows; the write stores exactly the rows
\* fetchall gave, under the computed key; and it is made before populate
\* starts, hence before the inventory changes.
C8_WriteThroughBeforePopulate ==
  IsMiss =>
    /\ utilize_cache
    /\ ~Called("store") =>
         /\ cacheStore = cache0
         /\ inventory = inventory0
         /\ ~Called("populate")
    /\ Called("store") =>
         /\ Pos("fetchall") > 0
         /\ Pos("fetchall") < Pos("store")
         /\ failure = ""
         /\ cache_key = get_cache_key(path)
         /\ cacheStore = (cache_key :> PyList(db)) @@ cache0
         /\ cacheStore[cache_key] = raw_hosts
    /\ Called("populate") => Called("store") /\ Pos("store") < Pos("populate")

\* An empty result was written through and populate has begun.
C8_Witness ==
  /\ IsMiss
  /\ pc = "row"
  /\ db = <<>>
  /\ cacheStore[cache_key] = PyList(<<>>)

\* The place of each call in the order parse prescribes; the calls made for
\* the rows all come last.
Rank(e) ==
  IF e[2] > 0 THEN 20
  ELSE CASE e[1] = "read_config" -> 1
         [] e[1] = "cache_key" -> 2
         [] e[1] = "decide" -> 3
         [] e[1] = "cache_get" -> 4
         [] e[1] \in {"hit", "miss"} -> 5
         [] e[1] = "validate" -> 6
         [] e[1] = "connect" -> 7
         [] e[1] = "connected" -> 8
         [] e[1] = "execute" -> 9
         [] e[1] = "fetchall" -> 10
         [] e[1] = "close" -> 11
         [] e[1] = "store" -> 12
         [] e[1] = "populate" -> 13

\* The calls of the load were made in the prescribed order, none twice, and
\* the rows were taken in sequence: each call comes later in the order than
\* the call before it.
LinearOrder ==
  \A i \in 1..(Len(log) - 1) :
    /\ Rank(log[i]) <= Rank(log[i + 1])
    /\ Rank(log[i + 1]) < 20 => Rank(log[i]) < Rank(log[i + 1])
    /\ log[i][2] <= log[i + 1][2]

\* The load has ended.
Ended == pc \in {"done", "error"}

\* C9 as claimed: every load keeps the linear order and executes the query
\* exactly once on a miss or with the cache disabled, never on a hit.
C9_QueryExactlyOnceUnlessHit ==
  /\ LinearOrder
  /\ (Ended /\ ~IsHit) => executed = 1
  /\ (Ended /\ IsHit) => executed = 0

\* C9: every load makes its calls in the order read configuration, cache
\* key, decide, lookup, query, store, populate, none of them twice; it
\* executes the query at most once: never on a hit, and on a miss or with the
\* cache disabled exactly once when it gets as far as populate (not at all
\* when the query is rejected or connect fails); populate starts only with
\* the row set in hand.
C9_LinearOrderQueryAtMostOnce ==
  /\ LinearOrder
  /\ executed <= 1
  /\ Count("execute") = executed
  /\ IsHit => executed = 0
  /\ (HasRows /\ ~IsHit) => executed = 1
  /\ (Ended /\ ~IsHit /\ executed = 0) =>
       \/ ErrorKind(err) = "ConfigurationError"
       \/ failure \in ConnectFailures
  /\ Called("populate") => ~IsNone(raw_hosts) /\ HasRows
  /\ (Called("populate") /\ ~IsHit) => Called("fetchall")

\* A load that missed went through every step once and is done.
C9_Witness ==
  /\ Populated
  /\ IsMiss
  /\ executed = 1
  /\ Called("store")
  /\ Len(raw_hosts.v) = 2

\* C10: once the driver has raised in connect, execute or fetchall, the fetch
\* raises a DatabaseError whose text carries the driver's message: nothing
\* else is pending in the finally block and nothing else reaches parse, whose
\* raw_hosts stays None; parse neither stores nor populates.
C10_DriverFailureRaisesDatabaseError ==
  (InLoad /\ failure /= "") =>
    /\ pc \in {"finally", "error"}
    /\ pc = "finally" => pending = Raise(DatabaseQueryFailed(failure))
    /\ pc = "error" =>
         /\ ErrorKind(err) = "DatabaseError"
         /\ err.detail = failure
    /\ IsNone(raw_hosts)
    /\ ~Called("store")
    /\ ~Called("populate")

\* fetchall lost the connection and parse got the DatabaseError.
C10_Witness ==
  /\ pc = "error"
  /\ failure = "Lost connection"
  /\ err = [msg |-> "Database query failed: ", detail |-> "Lost connection"]


----------------------------------------------------------------------------
(* Failures inside the loop of _populate.                                   *)

\* _populate has raised.
PopulateFailed == pc = "error" /\ ErrorKind(err) = "PopulationError"

\* The row _populate is at.
CurrentRow == raw_hosts.v[idx]

\* The hostname value of a row is a string.
StringHostname(row) ==
  /\ cfg.hostname_field \in DOMAIN row.v
  /\ row.v[cfg.hostname_field].t = "str"

\* The message of the exception that a row brings about inside _add_host.
RowCause(row) ==
  IF ~StringHostname(row) THEN "Invalid host name provided"
  ELSE IF cfg.compose THEN "Could not set tier"
  ELSE IF cfg.groups THEN "Could not add host to group prod"
  ELSE "Could not generate group"

\* Inventory b holds everything inventory a holds: its hosts, its groups and
\* their members, and the variables of its hosts.
Extends(a, b) ==
  /\ Hosts(a) \subseteq Hosts(b)
  /\ DOMAIN a.groups \subseteq DOMAIN b.groups
  /\ \A g \in DOMAIN a.groups :
       \A m \in 1..Len(a.groups[g]) : InSeq(b.groups[g], a.groups[g][m])
  /\ \A h \in Hosts(a) : DOMAIN a.vars[h] \subseteq DOMAIN b.vars[h]

\* The inventory has the host of a row, in group all, with a variable for
\* each field of the row.
KeepsRow(inv, row) ==
  LET h == row.v[cfg.hostname_field].v
  IN  /\ h \in Hosts(inv)
      /\ InSeq(inv.groups["all"], h)
      /\ DOMAIN row.v \subseteq DOMAIN inv.vars[h]

\* The inventory holds the host of a row: in group all, with the row's fields
\* as its variables.
HoldsRow(inv, row) ==
  LET h == row.v[cfg.hostname_field].v
  IN  /\ h \in Hosts(inv)
      /\ InSeq(inv.groups["all"], h)
      /\ \A k \in DOMAIN row.v :
           k \in DOMAIN inv.vars[h] /\ inv.vars[h][k] = row.v[k]

\* C11: an exception inside the loop body for a row ends the load with the
\* error "Failure parsing record: " followed by the message of the cause; no
\* step of a later row has run and none runs afterwards; nothing is rolled
\* back: the step that fails and every step of the load before it only add
\* to the inventory, and what _add_host had added for the failing row before
\* the exception (its host in group all, its variables) is still there.
C11_RowExceptionAbortsWithoutRollback ==
  /\ [](PopulateFailed =>
          /\ err.msg = "Failure parsing record: "
          /\ err.detail /= ""
          /\ err.detail = RowCause(CurrentRow)
          /\ \A n \in 1..Len(log) : log[n][2] <= idx
          /\ Extends(inventory0, inventory)
          /\ \A j \in NamedRows(idx - 1) : KeepsRow(inventory, raw_hosts.v[j])
          /\ StringHostname(CurrentRow) => HoldsRow(inventory, CurrentRow))
  /\ [][(pc = "row" /\ pc' = "error") => Extends(inventory, inventory')]_vars
  /\ [][PopulateFailed => (pc' = "idle" /\ inventory' = inventory)]_vars

\* The first of two rows fails in a strict compose step: its host stays, with
\* its variables, and the second row never becomes a host.
C11_Witness ==
  /\ PopulateFailed
  /\ raw_hosts.v = <<RowH2, RowH1Prod>>
  /\ idx = 1
  /\ err.detail = "Could not set tier"
  /\ HoldsRow(inventory, RowH2)
  /\ "h1" \notin Hosts(inventory)


----------------------------------------------------------------------------
(* The strict flag of the three constructed steps.                          *)

\* One of compose, groups, keyed_groups is configured.
AnyStep == cfg.compose \/ cfg.groups \/ cfg.keyed_groups

\* The calls _add_host makes for a row, in the order of lines 216-231.
StepNames == <<"add_host", "set_variable", "compose", "groups", "keyed_groups">>

\* The first n calls of _add_host for row i.
RowEvents(i, n) == [k \in 1..n |-> <<StepNames[k], i>>]

\* The position in StepNames of the first configured constructed step.
FirstStep == IF cfg.compose THEN 3 ELSE IF cfg.groups THEN 4 ELSE 5

\* The row names a host and an expression of a configured step fails on it.
FailsRow(row) ==
  /\ ~MissingHostname(row)
  /\ StringHostname(row)
  /\ AnyStep
  /\ ExprFails(row)

\* What a non-strict _add_host leaves of a row whose expressions fail: the
\* host in group all with the row's fields, no composed variable, no
\* membership in a composed or keyed group.
SkipsFailedSteps ==
  LET h == CurrentRow.v[cfg.hostname_field].v
      before == IF h \in Hosts(inventory) THEN DOMAIN inventory.vars[h] ELSE {}
  IN  /\ HoldsRow(inventory', CurrentRow)
      /\ DOMAIN inventory'.vars[h] = before \cup DOMAIN CurrentRow.v
      /\ DOMAIN inventory'.groups = DOMAIN inventory.groups
      /\ \A g \in DOMAIN inventory.groups \ {"all"} :
           inventory'.groups[g] = inventory.groups[g]

----------------------------------------------------------------------------
(* Host variables from row fields.                                          *)

\* The rows whose variables _add_host has set: those before idx, and the row
\* at idx when _add_host raised after setting them.
RowsSet == IF PopulateFailed /\ StringHostname(CurrentRow) THEN idx ELSE idx - 1

\* The hostname of the row at position j.
HostOf(j) == raw_hosts.v[j].v[cfg.hostname_field].v

\* Row j is the last of the rows 1..n that gives its host the variable k.
LastToSet(j, k, n) ==
  \A l \in NamedRows(n) :
    (l > j /\ HostOf(l) = HostOf(j)) => k \notin DOMAIN raw_hosts.v[l].v

\* C13: once _populate has handled a row with a hostname, the host has a
\* variable for every field of the row, under the field's name; the value is
\* that of the last handled row of that host with the field, whatever the
\* host held for that name before (from an earlier row or an earlier load).
C13_RowFieldsBecomeHostVariables ==
  (pc \in {"row", "done"} \/ PopulateFailed) =>
    \A j \in NamedRows(RowsSet) :
      /\ HostOf(j) \in Hosts(inventory)
      /\ \A k \in DOMAIN raw_hosts.v[j].v :
           /\ k \in DOMAIN inventory.vars[HostOf(j)]
           /\ LastToSet(j, k, RowsSet) =>
                inventory.vars[HostOf(j)][k] = raw_hosts.v[j].v[k]

\* Two rows of one host differ in env. An earlier load of the same rows left
\* the host with the second row's value; this load has handled the first row
\* and the host now has the first row's value.
C13_Witness ==
  /\ pc = "row"
  /\ idx = 2
  /\ raw_hosts.v = <<RowH1Prod, RowH1Dev>>
  /\ "h1" \in Hosts(inventory0)
  /\ inventory0.vars["h1"]["env"] = PyStr("DEV")
  /\ inventory.vars["h1"]["env"] = PyStr("PROD")
  /\ inventory.vars["h1"]["hostname"] = PyStr("h1")


----------------------------------------------------------------------------
(* Registering a host twice.                                                *)

\* How often host h is listed in group g.
Memberships(inv, g, h) ==
  Cardinality({m \in 1..Len(inv.groups[g]) : inv.groups[g][m] = h})

\* C14: add_host(hostname, group="all") for a host the inventory already has,
\* from an earlier row or an earlier load, changes neither the hosts nor the
\* members of all and raises nothing: if the row fails, a strict constructed
\* step failed. Every host of the inventory is listed in all once.
C14_RegistrationIsIdempotent ==
  /\ [](\A h \in Hosts(inventory) : Memberships(inventory, "all", h) = 1)
  /\ [][(/\ pc = "row"
         /\ idx <= Len(raw_hosts.v)
         /\ ~MissingHostname(CurrentRow)
         /\ HostOf(idx) \in Hosts(inventory)) =>
          /\ Hosts(inventory') = Hosts(inventory)
          /\ inventory'.groups["all"] = inventory.groups["all"]
          /\ pc' = "error" => (cfg.strict /\ FailsRow(CurrentRow))]_vars

\* Two rows name h1, and an earlier load on the same inventory had registered
\* h1 already: the load completes and all lists h1 once.
C14_Witness ==
  /\ pc = "done"
  /\ raw_hosts.v = <<RowH1Prod, RowH1Dev>>
  /\ "h1" \in Hosts(inventory0)
  /\ inventory.groups["all"] = <<"h1">>


----------------------------------------------------------------------------
(* verify_file.                                                             *)

\* p is some text followed by one of the two suffixes.
HasSuffix(p) ==
  \E n \in 0..Len(p), suffix \in Suffixes : p = SubSeq(p, 1, n) \o suffix

\* C15: verify_file returns True exactly when super().verify_file accepted
\* the path and the path ends with mysql.yaml or mysql.yml; for every other
\* path, and whenever the base class refuses, it returns False.
C15_VerifyFileNeedsSuffixAndBaseCheck ==
  pc = "verified" =>
    /\ verify.valid <=> (verify.accepted /\ HasSuffix(verify.path))
    /\ ~verify.accepted => ~verify.valid
    /\ ~HasSuffix(verify.path) => ~verify.valid

\* A path under a directory with the long suffix, accepted by the base class.
C15_Witness ==
  /\ pc = "verified"
  /\ verify.path = <<"i", "n", "v", "/", "m", "y", "s", "q", "l", ".", "y", "a", "m", "l">>
  /\ verify.accepted
  /\ verify.valid


----------------------------------------------------------------------------
(* The order of the steps of _populate.                                     *)

\* The place of a call among the steps of a row; 0 for the warning of a
\* skipped row.
StepPos(name) ==
  IF name = "warning" THEN 0 ELSE CHOOSE k \in 1..5 : StepNames[k] = name

\* The log entries made for rows.
RowEntries == {n \in 1..Len(log) : log[n][2] >= 1}

\* C16: the calls _populate makes for rows begin with the first step of row 1
\* right after _populate is entered; each call is followed either by the next
\* step of the same row (add_host, set_variable, compose, groups,
\* keyed_groups, none left out) or, after the row's last step or the warning
\* of a skipped row, by the first step of the next row; so a constructed step
\* of a row comes after that row's add_host and set_variable, and when the
\* loop is past a row all of that row's steps are done.
C16_RowsAndStepsInOrder ==
  /\ \A n \in RowEntries :
       /\ log[n][2] <= idx
       /\ (n = 1 \/ (n - 1) \notin RowEntries) =>
            /\ n > 1
            /\ log[n - 1] = Event("populate")
            /\ log[n][2] = 1
            /\ StepPos(log[n][1]) <= 1
       /\ (n - 1) \in RowEntries =>
            \/ /\ log[n][2] = log[n - 1][2]
               /\ log[n - 1][1] /= "warning"
               /\ StepPos(log[n][1]) = StepPos(log[n - 1][1]) + 1
            \/ /\ log[n][2] = log[n - 1][2] + 1
               /\ log[n - 1][1] \in {"keyed_groups", "warning"}
               /\ StepPos(log[n][1]) <= 1
       /\ StepPos(log[n][1]) >= 3 =>
            \E a \in 1..(n - 1), b \in 1..(n - 1) :
              /\ a < b
              /\ log[a] = <<"add_host", log[n][2]>>
              /\ log[b] = <<"set_variable", log[n][2]>>
  /\ pc \in {"row", "done"} =>
       \A j \in 1..(idx - 1) :
         IF MissingHostname(raw_hosts.v[j])
         THEN InSeq(log, <<"warning", j>>)
         ELSE \A k \in 1..5 : InSeq(log, <<StepNames[k], j>>)

\* Two rows with hostnames, every constructed option set: ten calls, the five
\* of row 1 and then the five of row 2.
C16_Witness ==
  /\ pc = "done"
  /\ cfg.compose /\ cfg.groups /\ cfg.keyed_groups
  /\ raw_hosts.v = <<RowH1Prod, RowH2>>
  /\ Len(log) >= 10
  /\ SubSeq(log, Len(log) - 9, Len(log)) = RowEvents(1, 5) \o RowEvents(2, 5)


----------------------------------------------------------------------------
(* What a failed fetch leaves behind.                                       *)

\* C17: from the moment the driver raises inside _get_raw_hosts until parse
\* has raised the error, the cache store and the inventory are what they
\* were when the load began: the key of the load has no entry it did not
\* have before, with the cache in use or not, and _populate has not been
\* entered.
C17_FailedFetchLeavesNoTrace ==
  (InLoad /\ failure /= "") =>
    /\ cacheStore = cache0
    /\ inventory = inventory0
    /\ utilize_cache => cache_key \notin DOMAIN cacheStore
    /\ idx = 0
    /\ pc \notin {"store", "populate", "row", "done"}

\* The cache is in use and the inventory holds hosts of an earlier load: the
\* query fails in execute, the load ends in a DatabaseError, the store has no
\* entry and the inventory is as it was.
C17_Witness ==
  /\ pc = "error"
  /\ ErrorKind(err) = "DatabaseError"
  /\ failure = "SQL syntax error"
  /\ utilize_cache
  /\ cacheStore = [k \in {} |-> PyNone]
  /\ Hosts(inventory0) /= {}
  /\ inventory = inventory0


----------------------------------------------------------------------------
(* The cache after a failed _populate.                                      *)

\* The rows on which _add_host raises under the options of the load.
FailingRows == {j \in 1..Len(raw_hosts.v) : cfg.strict /\ FailsRow(raw_hosts.v[j])}

\* C18: when _populate raises in a load that uses the cache, the rows of the
\* load are in the store under its key, fetched by this load or found there;
\* the store changes only at the write of line 149, so no failure and no
\* return takes the entry out and a later load of the key that uses the
\* cache finds it: that load executes no query and populates from the stored
\* rows. Whether and where _populate fails depends on the rows and the
\* options alone (the first row on which _add_host raises), so the same rows
\* under the same options fail again at the same row.
C18_CacheKeepsRowsOfFailedPopulate ==
  /\ []((PopulateFailed /\ utilize_cache) =>
          /\ cache_key \in DOMAIN cacheStore
          /\ cacheStore[cache_key] = raw_hosts
          /\ IsMiss => raw_hosts = PyList(db))
  /\ [][cacheStore' /= cacheStore =>
          (pc = "store" /\ DOMAIN cacheStore \subseteq DOMAIN cacheStore')]_vars
  /\ []((IsHit /\ pc \in {"populate", "row", "done", "error"}) =>
          /\ executed = 0
          /\ connects = 0
          /\ raw_hosts = cache0[cache_key]
          /\ cacheStore = cache0)
  /\ []((pc \in {"done", "error"} /\ HasRows) =>
          /\ PopulateFailed <=> FailingRows /= {}
          /\ PopulateFailed => \A j \in FailingRows : idx <= j)

\* A load finds rows in the cache, runs no query and fails in _populate on
\* the second of them; the rows are still in the cache.
C18_Witness ==
  /\ IsHit
  /\ PopulateFailed
  /\ executed = 0
  /\ idx = 2
  /\ raw_hosts.v = <<RowH1Prod, RowH2>>
  /\ cacheStore[cache_key] = raw_hosts


----------------------------------------------------------------------------
(* Termination.                                                             *)

\* How a load has ended.
Outcome ==
  IF pc = "done" THEN "DONE" ELSE IF pc = "error" THEN ErrorKind(err) ELSE "running"

\* C19: every load that begins ends, in done or in an error; an ended load
\* has one outcome, DONE without an error or one of ConfigurationError,
\* DatabaseError and PopulationError, and in that state no connection is
\* open: none at the server and the connection of the load, if it had one,
\* is closed.
C19_EveryLoadEndsWithConnectionClosed ==
  /\ (pc = "cache_key") ~> Ended
  /\ [](Ended =>
          /\ Outcome \in {"DONE", "ConfigurationError", "DatabaseError",
                          "PopulationError"}
          /\ pc = "done" <=> err = NoError
          /\ idx <= Len(db) + 1
          /\ open_conns = 0
          /\ connection /= "open")

\* A load over two rows that connected, fetched and populated has ended in
\* done with its connection closed.
C19_Witness ==
  /\ pc = "done"
  /\ Len(raw_hosts.v) = MaxRows
  /\ connects = 1
  /\ connection = "closed"
  /\ open_conns = 0

====
